---- MODULE Spec2Model ----
(***************************************************************************)
(* primitive-quadify-off-curves: fitting of quadratic off-curve points to  *)
(* a derivable curve (src/src/functional.ts), with the nearest-point       *)
(* estimator it uses (estimate.ts) and the curve classes (src/src/index.ts)*)
(*                                                                         *)
(* Numbers.  The program computes in IEEE doubles.  The model computes in  *)
(* exact rational arithmetic: a number is a pair <<n, d>> in lowest terms  *)
(* with d > 0; <<0, 0>> is NaN and <<1, 0>>, <<-1, 0>> are the infinities. *)
(* Rounding is not modelled; the decimal thresholds of the source (1e-6,   *)
(* 1e-12, 1e9) are compared exactly.                                       *)
(***************************************************************************)
EXTENDS Integers, Sequences, FiniteSets, TLC

VARIABLES
    invMatrixCache, \* functional.ts:101, the module-level Map n -> inverse
    pc,             \* "idle" | "quadified" | "loop" | "returned" | "raised"
    call,           \* arguments of the running autoQuadifyCurve call
    s,              \* autoQuadifyCurve's loop variable
    results,        \* autoQuadifyCurve's remembered best-effort fit
    ret,            \* value returned by the last autoQuadifyCurve call
    log,            \* history: one entry per attempt of the running call
    lastQ,          \* history: the last direct quadifyCurve call
    arg,            \* input of the pure function under test
    res             \* its result

vars == <<invMatrixCache, pc, call, s, results, ret, log, lastQ, arg, res>>

(***************************************************************************)
(* Bounds of the model.                                                    *)
(***************************************************************************)
MaxSegments == 3   \* largest maxSegments / n a caller passes
CoefMax == 2       \* quadSolve coefficients range over -CoefMax..CoefMax

(***************************************************************************)
(* Program constants.                                                      *)
(***************************************************************************)
ParallelEps == 1000000      \* 1e-6 = 1 / ParallelEps
CoincideEpsRoot == 1000000  \* 1e-12 = 1 / CoincideEpsRoot^2
Huge == 1000000000          \* 1e9

(***************************************************************************)
(* Exact rational arithmetic.  A value that is used several times is       *)
(* passed to a helper operator as a parameter.                             *)
(***************************************************************************)
Abs(a) == IF a < 0 THEN -a ELSE a
Sign(n) == IF n > 0 THEN 1 ELSE IF n < 0 THEN -1 ELSE 0

RECURSIVE Gcd(_, _)
Gcd(a, b) == IF b = 0 THEN a ELSE Gcd(b, a % b)

Reduce(n, d, g) ==
    IF d < 0 THEN <<-(n \div g), -(d \div g)>> ELSE <<n \div g, d \div g>>

Norm(n, d) == IF d = 0 THEN <<Sign(n), 0>> ELSE Reduce(n, d, Gcd(Abs(n), Abs(d)))

R(n) == <<n, 1>>
Frac(n, d) == Norm(n, d)
Zero == <<0, 1>>
One == <<1, 1>>
Half == <<1, 2>>
NaN == <<0, 0>>

IsNaN(a) == a[1] = 0 /\ a[2] = 0

AddFinite(a, b, g) ==
    Norm(a[1] * (b[2] \div g) + b[1] * (a[2] \div g), a[2] * (b[2] \div g))

Add(a, b) ==
    IF a[2] = 0 \/ b[2] = 0
    THEN (IF IsNaN(a) \/ IsNaN(b) \/ (a[2] = 0 /\ b[2] = 0 /\ a[1] # b[1])
          THEN NaN ELSE IF a[2] = 0 THEN a ELSE b)
    ELSE AddFinite(a, b, Gcd(a[2], b[2]))

Neg(a) == <<-a[1], a[2]>>
Sub(a, b) == Add(a, Neg(b))

MulFinite(a, b, g1, g2) ==
    Norm((a[1] \div g1) * (b[1] \div g2), (a[2] \div g2) * (b[2] \div g1))

Mul(a, b) ==
    IF a[2] = 0 \/ b[2] = 0
    THEN (IF a[1] = 0 \/ b[1] = 0 THEN NaN ELSE <<Sign(a[1]) * Sign(b[1]), 0>>)
    ELSE MulFinite(a, b, Gcd(Abs(a[1]), b[2]), Gcd(Abs(b[1]), a[2]))

Div(a, b) ==
    IF b[2] = 0 THEN (IF a[2] = 0 THEN NaN ELSE Zero)
    ELSE Mul(a, Norm(b[2], b[1]))

\* a < b in the sense of the JavaScript operator: false as soon as one is NaN.
\* Finite numbers are compared by integer part, then by remainder.
Lt(a, b) ==
    /\ ~IsNaN(a)
    /\ ~IsNaN(b)
    /\ IF a[2] = 0 /\ b[2] = 0 THEN a[1] < b[1]
       ELSE IF a[2] = 0 THEN a[1] < 0
       ELSE IF b[2] = 0 THEN b[1] > 0
       ELSE \/ a[1] \div a[2] < b[1] \div b[2]
            \/ /\ a[1] \div a[2] = b[1] \div b[2]
               /\ (a[1] % a[2]) * b[2] < (b[1] % b[2]) * a[2]

Le(a, b) == ~IsNaN(a) /\ ~IsNaN(b) /\ (a = b \/ Lt(a, b))
Gt(a, b) == Lt(b, a)
Ge(a, b) == Le(b, a)
AbsR(a) == <<Abs(a[1]), a[2]>>

\* |a| < 1 / k for a positive integer k, without forming k * |n|.
AbsBelowInv(a, k) == a[2] # 0 /\ Abs(a[1]) <= (a[2] - 1) \div k

\* |a| < 1 / k^2.
AbsBelowInvSq(a, k) == a[2] # 0 /\ Abs(a[1]) <= ((a[2] - 1) \div k) \div k

\* The sequence sq with every element evaluated.
Force(sq) == IF DOMAIN sq = {} THEN <<>> ELSE SubSeq(sq, 1, Len(sq))

RECURSIVE SumSeq(_)
SumSeq(sq) == IF sq = <<>> THEN Zero ELSE Add(Head(sq), SumSeq(Tail(sq)))

(***************************************************************************)
(* Points and curves.                                                      *)
(***************************************************************************)
Pt(x, y) == [x |-> x, y |-> y]
IPt(x, y) == Pt(R(x), R(y))

\* mix.ts: linear interpolation from a (t = 0) to b (t = 1).
mix(a, b, t) == Add(a, Mul(Sub(b, a), t))

\* index.ts:24-26
bez3Upper(ab, bc, cd, t) == mix(mix(ab, bc, t), mix(bc, cd, t), t)

\* index.ts:20-27
bez3(a, b, c, d, t) == bez3Upper(mix(a, b, t), mix(b, c, t), mix(c, d, t), t)

\* index.ts:29-38
bezT3(P0, P1, P2, P3, t) ==
    Add(Add(Sub(Sub(Add(Mul(Mul(Mul(R(-3), Sub(One, t)), Sub(One, t)), P0),
                        Mul(Mul(Mul(R(3), Sub(One, t)), Sub(One, t)), P1)),
                    Mul(Mul(Mul(R(6), t), Sub(One, t)), P1)),
                Mul(Mul(Mul(R(3), t), t), P2)),
            Mul(Mul(Mul(R(6), t), Sub(One, t)), P2)),
        Mul(Mul(Mul(R(3), t), t), P3))

\* estimate.ts:76-78
bez2(a, b, c, t) == mix(mix(a, b, t), mix(b, c, t), t)

NoBump == <<>>

\* A curve is any object with eval and derivative (functional.ts:32-37).
\*   kind "cubic": index.ts CubicBezierCurve with control points p[1..4];
\*   kind "quad":  a caller's quadratic Bezier with control points p[1..3];
\*   kind "line":  a caller's straight path from p[1] to p[2] at constant speed.
\* bump: a caller's curve may leave its base path at some parameters; bump maps
\*   the reduced denominator of t to the offset added there.
\* bad: the reduced denominators of the parameters at which the caller's eval
\*   and derivative throw.
CubicBezierCurve(a, b, c, d) ==
    [kind |-> "cubic", p |-> <<a, b, c, d>>, bump |-> NoBump, bad |-> {}]
QuadCurve(a, b, c) ==
    [kind |-> "quad", p |-> <<a, b, c>>, bump |-> NoBump, bad |-> {}]
LineCurve(a, b, bump, bad) ==
    [kind |-> "line", p |-> <<a, b>>, bump |-> bump, bad |-> bad]

Throws(c, t) == t[2] \in c.bad

BaseEval(c, t) ==
    CASE c.kind = "cubic" ->
            Pt(bez3(c.p[1].x, c.p[2].x, c.p[3].x, c.p[4].x, t),
               bez3(c.p[1].y, c.p[2].y, c.p[3].y, c.p[4].y, t))
      [] c.kind = "quad" ->
            Pt(bez2(c.p[1].x, c.p[2].x, c.p[3].x, t),
               bez2(c.p[1].y, c.p[2].y, c.p[3].y, t))
      [] OTHER ->
            Pt(mix(c.p[1].x, c.p[2].x, t), mix(c.p[1].y, c.p[2].y, t))

Bumped(b, off) == Pt(Add(b.x, off.x), Add(b.y, off.y))

WithBump(c, t, b) == IF t[2] \in DOMAIN c.bump THEN Bumped(b, c.bump[t[2]]) ELSE b

eval(c, t) == WithBump(c, t, BaseEval(c, t))

derivative(c, t) ==
    CASE c.kind = "cubic" ->
            Pt(bezT3(c.p[1].x, c.p[2].x, c.p[3].x, c.p[4].x, t),
               bezT3(c.p[1].y, c.p[2].y, c.p[3].y, c.p[4].y, t))
      [] c.kind = "quad" ->
            Pt(Mul(R(2), mix(Sub(c.p[2].x, c.p[1].x), Sub(c.p[3].x, c.p[2].x), t)),
               Mul(R(2), mix(Sub(c.p[2].y, c.p[1].y), Sub(c.p[3].y, c.p[2].y), t)))
      [] OTHER ->
            Pt(Sub(c.p[2].x, c.p[1].x), Sub(c.p[2].y, c.p[1].y))

(***************************************************************************)
(* functional.ts:40-67.  None is null, Some(p) the point p.                *)
(***************************************************************************)
None == <<>>
Some(p) == <<p>>

\* functional.ts:41-43
Det(d1, d2) == Sub(Mul(d2.x, d1.y), Mul(d2.y, d1.x))
NumU(p1, d2, p2) == Sub(Mul(Sub(p2.y, p1.y), d2.x), Mul(Sub(p2.x, p1.x), d2.y))
NumV(p1, d1, p2) == Sub(Mul(Sub(p2.y, p1.y), d1.x), Mul(Sub(p2.x, p1.x), d1.y))

\* functional.ts:46-58 without the coincident case
ParallelRejecting(p1, p2, det, numU, numV) == None

\* functional.ts:46-58
Parallel(p1, p2, det, numU, numV) ==
    IF /\ AbsBelowInvSq(numU, CoincideEpsRoot)
       /\ AbsBelowInvSq(numV, CoincideEpsRoot)
       /\ Le(Mul(numU, det), Zero)
       /\ Ge(Mul(numV, det), Zero)
    THEN Some(Pt(Div(Add(p1.x, p2.x), R(2)), Div(Add(p1.y, p2.y), R(2))))
    ELSE None

\* functional.ts:62-66 with "u < 0" for "u <= 0"
CrossingLenient(p1, d1, u, v) ==
    IF Lt(u, Zero) \/ Ge(v, Zero) THEN None
    ELSE Some(Pt(Add(p1.x, Mul(d1.x, u)), Add(p1.y, Mul(d1.y, u))))

\* functional.ts:62-66
Crossing(p1, d1, u, v) ==
    IF Le(u, Zero) \/ Ge(v, Zero) THEN None
    ELSE Some(Pt(Add(p1.x, Mul(d1.x, u)), Add(p1.y, Mul(d1.y, u))))

\* functional.ts:45-66
Intersect(p1, d1, p2, det, numU, numV) ==
    IF AbsBelowInv(det, ParallelEps) THEN Parallel(p1, p2, det, numU, numV)
    ELSE Crossing(p1, d1, Div(numU, det), Div(numV, det))

findIntersection(p1, d1, d2, p2) ==
    Intersect(p1, d1, p2, Det(d1, d2), NumU(p1, d2, p2), NumV(p1, d1, p2))

(***************************************************************************)
(* functional.ts:25-30, 69-99.  Arrays are 0-based in the source; M[j][k]  *)
(* of the source is M[j + 1][k + 1] here.                                  *)
(***************************************************************************)
X(n) == n * 2
Y(n) == n * 2 + 1

Put(M, j, k, v) == [M EXCEPT ![j + 1][k + 1] = v]

\* functional.ts:88-96, one pass of the loop body
KnotRows(M, j) ==
    Put(Put(Put(Put(Put(Put(M, X(j + 1), X(j - 1), Frac(1, 8)),
                            X(j + 1), X(j), Frac(3, 4)),
                        X(j + 1), X(j + 1), Frac(1, 8)),
                    Y(j + 1), Y(j - 1), Frac(1, 8)),
                Y(j + 1), Y(j), Frac(3, 4)),
            Y(j + 1), Y(j + 1), Frac(1, 8))

\* functional.ts:87-97
RECURSIVE MatrixInner(_, _, _)
MatrixInner(M, j, n) ==
    IF ~(j < n - 1) THEN M ELSE MatrixInner(KnotRows(M, j), j + 1, n)

\* functional.ts:73-78
ZeroMatrix(m) == Force([j \in 1..m |-> Force([k \in 1..m |-> Zero])])

\* functional.ts:79-86
BoundaryRows(M, n) ==
    Put(Put(Put(Put(Put(Put(Put(Put(M, 0, X(0), One),
                                    0, Y(0), Zero),
                                2, X(0), Zero),
                            2, Y(0), One),
                        1, X(n - 1), One),
                    1, Y(n - 1), Zero),
                3, X(n - 1), Zero),
            3, Y(n - 1), One)

getMatrix(n) == MatrixInner(BoundaryRows(ZeroMatrix(2 * n), n), 1, n)

(***************************************************************************)
(* math.inv: the inverse of a square matrix, by Gauss-Jordan elimination   *)
(* on the matrix beside the identity.                                      *)
(***************************************************************************)
Identity(m) ==
    Force([j \in 1..m |-> Force([k \in 1..m |-> IF j = k THEN One ELSE Zero])])
RowScale(r, f) == Force([k \in 1..Len(r) |-> Div(r[k], f)])
RowSub(r, p, f) == Force([k \in 1..Len(r) |-> Sub(r[k], Mul(f, p[k]))])
PivotRows(A, c) == {r \in c..Len(A) : A[r][c][1] # 0}
MinOf(S) == CHOOSE v \in S : \A w \in S : v <= w
Swap(A, i, j) == [A EXCEPT ![i] = A[j], ![j] = A[i]]

\* The rows of M after column c of A is cleared with the scaled pivot row.
ClearColumn(M, A, c, pivotRow) ==
    Force([r \in 1..Len(M) |-> IF r = c THEN pivotRow ELSE RowSub(M[r], pivotRow, A[r][c])])

RECURSIVE GaussJordan(_, _, _)

Eliminate(A, B, c) ==
    GaussJordan(ClearColumn(A, A, c, RowScale(A[c], A[c][c])),
                ClearColumn(B, A, c, RowScale(B[c], A[c][c])), c + 1)

Pivot(A, B, c, p) == Eliminate(Swap(A, c, p), Swap(B, c, p), c)

GaussJordan(A, B, c) ==
    IF c > Len(A) THEN B ELSE Pivot(A, B, c, MinOf(PivotRows(A, c)))

inv(A) == GaussJordan(A, Identity(Len(A)), 1)

(***************************************************************************)
(* functional.ts:101-109.  The result is the matrix and the cache after    *)
(* the call.                                                               *)
(***************************************************************************)
EmptyCache == <<>>

Found(cache, n) == [m |-> cache[n], cache |-> cache]
ComputedEvicting(cache, n, computed) == [m |-> computed, cache |-> (n :> computed)]
Computed(cache, n, computed) == [m |-> computed, cache |-> (n :> computed) @@ cache]

getInvMatrixEvicting(cache, n) ==
    IF n \in DOMAIN cache THEN Found(cache, n)
    ELSE ComputedEvicting(cache, n, inv(getMatrix(n)))

getInvMatrix(cache, n) ==
    IF n \in DOMAIN cache THEN Found(cache, n)
    ELSE Computed(cache, n, inv(getMatrix(n)))

(***************************************************************************)
(* functional.ts:111-135.  results[j] of the source is the element j + 1.  *)
(***************************************************************************)
PutV(v, j, x) == [v EXCEPT ![j + 1] = x]

\* functional.ts:129-131
PutKnot(v, j, pt) == PutV(PutV(v, X(j + 1), pt.x), Y(j + 1), pt.y)

\* functional.ts:128-132
RECURSIVE ResultsInner(_, _, _, _)
ResultsInner(v, c, j, n) ==
    IF ~(j < n - 1) THEN v
    ELSE ResultsInner(PutKnot(v, j, eval(c, Div(Add(R(j), Half), R(n)))), c, j + 1, n)

\* functional.ts:120-122
ZeroVector(m) == Force([j \in 1..m |-> Zero])

\* functional.ts:123-126
BoundaryResults(v, start, end, left, right, dScale) ==
    PutV(PutV(PutV(PutV(v, 0, Add(start.x, Mul(left.x, dScale))),
                   2, Add(start.y, Mul(left.y, dScale))),
              1, Sub(end.x, Mul(right.x, dScale))),
         3, Sub(end.y, Mul(right.y, dScale)))

getResultsWithScale(c, n, dScale) ==
    ResultsInner(BoundaryResults(ZeroVector(2 * n), eval(c, Zero), eval(c, One),
                                 derivative(c, Zero), derivative(c, One), dScale),
                 c, 1, n)

getResultsFullTangent(c, n) == getResultsWithScale(c, n, Div(One, R(n)))

getResults(c, n) == getResultsWithScale(c, n, Div(One, Mul(R(2), R(n))))

\* The parameters at which getResults calls the curve.
RECURSIVE KnotParams(_, _)
KnotParams(j, n) ==
    IF ~(j < n - 1) THEN {}
    ELSE {Div(Add(R(j), Half), R(n))} \cup KnotParams(j + 1, n)

FitParams(n) == {Zero, One} \cup (IF n >= 2 THEN KnotParams(1, n) ELSE {})

(***************************************************************************)
(* functional.ts:137-162.  The outcome of a call is out.kind:              *)
(*   "null" (returned null), "points" (returned the array out.pts) or      *)
(*   "throw" (an exception left the call).                                 *)
(***************************************************************************)
Null == [kind |-> "null", pts |-> <<>>]
Points(ps) == [kind |-> "points", pts |-> ps]
Thrown == [kind |-> "throw", pts |-> <<>>]

\* functional.ts:150-153
Dot(row, v) == SumSeq([k \in 1..Len(v) |-> Mul(row[k], v[k])])

\* functional.ts:149-155
Solve(m, rhs) == Force([j \in 1..Len(rhs) |-> Dot(m[j], rhs)])

\* functional.ts:157-161
CollectPointsDroppingLast(rs, n) ==
    Force([j \in 1..(n - 1) |-> Pt(rs[X(j - 1) + 1], rs[Y(j - 1) + 1])])

CollectPoints(rs, n) ==
    Force([j \in 1..n |-> Pt(rs[X(j - 1) + 1], rs[Y(j - 1) + 1])])

\* functional.ts:140-144
FitOne(m) == IF m # None THEN Points(<<m[1]>>) ELSE Null

\* functional.ts:146-161; g is what getInvMatrix returned
FitMany(n, rhs, g) ==
    [out |-> Points(CollectPoints(Solve(g.m, rhs), n)), cache |-> g.cache]

quadifyCurve(c, n, cache) ==
    IF n <= 0 THEN [out |-> Points(<<>>), cache |-> cache]
    ELSE IF \E t \in FitParams(n) : Throws(c, t)
    THEN [out |-> Thrown, cache |-> cache]
    ELSE IF n = 1
    THEN [out |-> FitOne(findIntersection(eval(c, Zero), derivative(c, Zero),
                                          derivative(c, One), eval(c, One))),
          cache |-> cache]
    ELSE FitMany(n, getResults(c, n), getInvMatrix(cache, n))

(***************************************************************************)
(* estimate.ts:19-32.  A root is a triple <<P, S, D>> standing for         *)
(* P + S * sqrt(D) with P, S, D rational and D >= 0; the roots of the      *)
(* source, (-b -/+ DSqrt) / (2 * a), are <<-b/(2a), -/+ 1/(2a), D>>.       *)
(***************************************************************************)
Surd(P, S, D) == <<P, S, D>>
Rational(P) == <<P, Zero, Zero>>

SignR(a) == IF a[1] > 0 THEN 1 ELSE IF a[1] < 0 THEN -1 ELSE 0

\* The sign of A + B * sqrt(D).
SurdSign(A, B, D) ==
    IF SignR(B) = 0 \/ SignR(D) = 0 THEN SignR(A)
    ELSE IF SignR(A) = 0 THEN SignR(B)
    ELSE IF SignR(A) = SignR(B) THEN SignR(A)
    ELSE SignR(A) * SignR(Sub(Mul(A, A), Mul(Mul(B, B), D)))

\* Comparison of two roots over the same radicand (or with a rational).
SurdCompare(r1, r2) ==
    SurdSign(Sub(r1[1], r2[1]), Sub(r1[2], r2[2]),
             IF r1[2] # Zero THEN r1[3] ELSE r2[3])
SurdLe(r1, r2) == SurdCompare(r1, r2) <= 0
SurdLt(r1, r2) == SurdCompare(r1, r2) < 0

\* estimate.ts:24-31 with the "D === 0" case left out
QuadRootsOneBranch(b, D, twoA) ==
    IF Lt(D, Zero) THEN <<>>
    ELSE <<Surd(Div(Neg(b), twoA), Neg(Div(One, twoA)), D),
           Surd(Div(Neg(b), twoA), Div(One, twoA), D)>>

\* estimate.ts:24-31
QuadRoots(b, D, twoA) ==
    IF Lt(D, Zero) THEN <<>>
    ELSE IF D = Zero THEN <<Rational(Div(Neg(b), twoA))>>
    ELSE <<Surd(Div(Neg(b), twoA), Neg(Div(One, twoA)), D),
           Surd(Div(Neg(b), twoA), Div(One, twoA), D)>>

quadSolve(a, b, c) ==
    IF a = Zero
    THEN (IF b = Zero THEN <<>> ELSE <<Rational(Div(Neg(c), b))>>)
    ELSE QuadRoots(b, Sub(Mul(b, b), Mul(Mul(R(4), a), c)), Mul(R(2), a))

(***************************************************************************)
(* Math.sqrt, the cube root and cos(acos(x) / 3 + k * 2 * pi / 3), exact   *)
(* on the arguments whose value is a rational with numerator and           *)
(* denominator up to RadicalRange (no other argument has a value in this   *)
(* arithmetic).                                                            *)
(***************************************************************************)
RadicalRange == 12

SmallRationals ==
    {Frac(n, d) : n \in -RadicalRange..RadicalRange, d \in 1..RadicalRange}

SqrtQ(x) == CHOOSE r \in SmallRationals : Ge(r, Zero) /\ Mul(r, r) = x

\* estimate.ts:34-36
cubicRoot(x) == CHOOSE r \in SmallRationals : Mul(Mul(r, r), r) = x

\* cos(acos(x) / 3 + k * 2 * pi / 3) is the root of 4 c^3 - 3 c = x in
\* [1/2, 1] for k = 0, in [-1, -1/2] for k = 1 and in [-1/2, 1/2] for k = 2.
CosThird(x, k) ==
    CHOOSE c \in SmallRationals :
        /\ Sub(Mul(R(4), Mul(Mul(c, c), c)), Mul(R(3), c)) = x
        /\ CASE k = 0 -> Le(Half, c) /\ Le(c, One)
             [] k = 1 -> Le(R(-1), c) /\ Le(c, Neg(Half))
             [] OTHER -> Le(Neg(Half), c) /\ Le(c, Half)

SurdValue(r) == IF r[2] = Zero THEN r[1] ELSE Add(r[1], Mul(r[2], SqrtQ(r[3])))

\* estimate.ts:52-53
OneRoot(a, xn, yn, D3Sqrt) ==
    <<Rational(Add(Add(xn, cubicRoot(Div(Add(Neg(yn), D3Sqrt), Mul(R(2), a)))),
                   cubicRoot(Div(Sub(Neg(yn), D3Sqrt), Mul(R(2), a)))))>>

\* estimate.ts:56-57
TwoRoots(xn, delta1) ==
    <<Rational(Sub(xn, Mul(R(2), delta1))), Rational(Add(xn, delta1))>>

\* estimate.ts:60-66
ThreeRoots(xn, cosArg, delta) ==
    <<Rational(Add(xn, Mul(Mul(R(2), delta), CosThird(cosArg, 0)))),
      Rational(Add(xn, Mul(Mul(R(2), delta), CosThird(cosArg, 1)))),
      Rational(Add(xn, Mul(Mul(R(2), delta), CosThird(cosArg, 2))))>>

\* estimate.ts:50-66
CubicRoots(a, xn, yn, deltaSq, hSq, D3) ==
    IF Gt(D3, Zero) THEN OneRoot(a, xn, yn, SqrtQ(D3))
    ELSE IF D3 = Zero THEN TwoRoots(xn, cubicRoot(Div(yn, Mul(R(2), a))))
    ELSE ThreeRoots(xn, Div(Neg(yn), SqrtQ(hSq)), SqrtQ(deltaSq))

\* estimate.ts:49
CubicDiscriminant(a, xn, yn, deltaSq, hSq) ==
    CubicRoots(a, xn, yn, deltaSq, hSq, Sub(Mul(yn, yn), hSq))

\* estimate.ts:46, 48
Cardano(a, b, c, d, xn, deltaSq) ==
    CubicDiscriminant(a, xn,
        Add(Mul(Add(Mul(Add(Mul(a, xn), b), xn), c), xn), d),
        deltaSq,
        Mul(Mul(Mul(R(4), a), a), Mul(Mul(deltaSq, deltaSq), deltaSq)))

\* estimate.ts:38-67
cubicSolve(a, b, c, d) ==
    IF a = Zero THEN quadSolve(b, c, d)
    ELSE Cardano(a, b, c, d, Div(Neg(b), Mul(R(3), a)),
                 Div(Sub(Mul(b, b), Mul(Mul(R(3), a), c)), Mul(Mul(R(9), a), a)))

\* estimate.ts:72
KeepOne(x) ==
    IF SurdLt(Rational(Zero), x) /\ SurdLt(x, Rational(One))
    THEN <<SurdValue(x)>> ELSE <<>>

RECURSIVE KeepInside(_)
KeepInside(as) ==
    IF as = <<>> THEN <<>> ELSE KeepOne(Head(as)) \o KeepInside(Tail(as))

\* estimate.ts:69-74
cubicSolveT(e3, e2, e1, e0) == <<Zero, One>> \o KeepInside(cubicSolve(e3, e2, e1, e0))

\* The smallest of start and the elements of sq, by the source's running
\* "if (d < minSoFar) minSoFar = d".
RECURSIVE RunningMin(_, _)
RunningMin(start, sq) ==
    IF sq = <<>> THEN start
    ELSE RunningMin(IF Lt(Head(sq), start) THEN Head(sq) ELSE start, Tail(sq))

Sq(a) == Mul(a, a)

\* estimate.ts:105
SquareDistance(tx, ty, zx, zy) == Add(Sq(Sub(tx, zx)), Sq(Sub(ty, zy)))

\* estimate.ts:101-108
MinOverCandidates(zx, zy, ax, ay, bx, by, cx, cy, candidates) ==
    RunningMin(R(Huge),
        Force([i \in 1..Len(candidates) |->
            SquareDistance(bez2(ax, bx, cx, candidates[i]),
                           bez2(ay, by, cy, candidates[i]), zx, zy)]))

\* estimate.ts:94-108
NearestOnQuad(zx, zy, ax, ay, bx, by, cx, cy, aax, aay, bbx, bby) ==
    MinOverCandidates(zx, zy, ax, ay, bx, by, cx, cy,
        cubicSolveT(Mul(R(2), Add(Sq(aax), Sq(aay))),
                    Mul(R(3), Add(Mul(aax, bbx), Mul(aay, bby))),
                    Add(Add(Sq(bbx), Sq(bby)),
                        Mul(R(2), Add(Mul(aax, Sub(ax, zx)), Mul(aay, Sub(ay, zy))))),
                    Add(Mul(Sub(ax, zx), bbx), Mul(Sub(ay, zy), bby))))

\* estimate.ts:80-109
minDistanceToQuad(zx, zy, ax, ay, bx, by, cx, cy) ==
    NearestOnQuad(zx, zy, ax, ay, bx, by, cx, cy,
                  Sub(Add(ax, cx), Mul(R(2), bx)), Sub(Add(ay, cy), Mul(R(2), by)),
                  Mul(R(2), Sub(bx, ax)), Mul(R(2), Sub(by, ay)))

(***************************************************************************)
(* functional.ts:164-195.  The result records what the call did:           *)
(*   kind "value": it returned err; minima holds, per parameter sampled,   *)
(*                 the minimum added to squareDist;                        *)
(*   kind "throw": the curve threw at a sampled parameter.                 *)
(***************************************************************************)
NoEstimate == [kind |-> "none", err |-> NaN, minima |-> <<>>, N |-> 0]

\* functional.ts:168-174
PointBefore(c, offPoints, j) ==
    IF j > 1
    THEN Pt(mix(offPoints[j].x, offPoints[j - 1].x, Half),
            mix(offPoints[j].y, offPoints[j - 1].y, Half))
    ELSE eval(c, Zero)

\* functional.ts:175-181
PointAfter(c, offPoints, j) ==
    IF j < Len(offPoints)
    THEN Pt(mix(offPoints[j].x, offPoints[j + 1].x, Half),
            mix(offPoints[j].y, offPoints[j + 1].y, Half))
    ELSE eval(c, One)

\* functional.ts:182
Segment(pointBefore, z, pointAfter) ==
    <<pointBefore.x, pointBefore.y, z.x, z.y, pointAfter.x, pointAfter.y>>

\* functional.ts:165-183
Segments(c, offPoints) ==
    Force([j \in 1..Len(offPoints) |->
        Segment(PointBefore(c, offPoints, j), offPoints[j], PointAfter(c, offPoints, j))])

\* functional.ts:186-191
MinOverCurves(z, curves) ==
    RunningMin(R(Huge),
        Force([i \in 1..Len(curves) |->
            minDistanceToQuad(z.x, z.y, curves[i][1], curves[i][2], curves[i][3],
                              curves[i][4], curves[i][5], curves[i][6])]))

SampleMinimum(c, curves, t) == MinOverCurves(eval(c, t), curves)

\* functional.ts:185-193
Minima(c, curves, N) ==
    Force([j \in 1..(N - 1) |-> SampleMinimum(c, curves, Frac(j, N))])

\* functional.ts:192, 194
Estimate(minima, N) ==
    [kind |-> "value", err |-> Div(SumSeq(minima), R(N)), minima |-> minima, N |-> N]

estimateError(c, offPoints, N) ==
    IF \/ (Len(offPoints) > 0 /\ (Throws(c, Zero) \/ Throws(c, One)))
       \/ \E j \in 1..(N - 1) : Throws(c, Frac(j, N))
    THEN [kind |-> "throw", err |-> NaN, minima |-> <<>>, N |-> N]
    ELSE Estimate(Minima(c, Segments(c, offPoints), N), N)

(***************************************************************************)
(* functional.ts:197-214, autoQuadifyCurve.                                *)
(*                                                                         *)
(* TryBody is the body of the try block up to the error estimate           *)
(* (206-208): the fit, the estimate when the fit gave points, and the      *)
(* cache the fit leaves.                                                   *)
(***************************************************************************)
Attempt(c, sv, samples, q) ==
    IF q.out.kind # "points" \/ Len(q.out.pts) = 0
    THEN [s |-> sv, fit |-> q.out, est |-> NoEstimate, cache |-> q.cache]
    ELSE [s |-> sv, fit |-> q.out,
          est |-> estimateError(c, q.out.pts, samples * sv), cache |-> q.cache]

TryBody(c, sv, samples, cache) == Attempt(c, sv, samples, quadifyCurve(c, sv, cache))

AttemptThrew(a) == a.fit.kind = "throw" \/ a.est.kind = "throw"
AttemptGavePoints(a) == a.fit.kind = "points" /\ Len(a.fit.pts) > 0
AttemptSucceeded(a) == AttemptGavePoints(a) /\ a.est.kind = "value"

\* What the loop does with an attempt (205-211): the next control point, loop
\* variable, remembered result and return value.
Continue(sv, best) == [pc |-> "loop", s |-> sv + 1, results |-> best, ret |-> Null]

AfterAttemptUncaught(best, sv, a, allowError) ==
    IF AttemptThrew(a)
    THEN [pc |-> "raised", s |-> sv, results |-> best, ret |-> Null]
    ELSE IF ~AttemptGavePoints(a) THEN Continue(sv, best)
    ELSE IF Lt(a.est.err, allowError)
    THEN [pc |-> "returned", s |-> sv, results |-> best, ret |-> a.fit]
    ELSE Continue(sv, a.fit)

AfterAttemptNoEarlyReturn(best, sv, a, allowError) ==
    IF AttemptThrew(a) THEN Continue(sv, best)
    ELSE IF ~AttemptGavePoints(a) THEN Continue(sv, best)
    ELSE Continue(sv, a.fit)

AfterAttemptKeepingFirst(best, sv, a, allowError) ==
    IF AttemptThrew(a) THEN Continue(sv, best)
    ELSE IF ~AttemptGavePoints(a) THEN Continue(sv, best)
    ELSE IF Lt(a.est.err, allowError)
    THEN [pc |-> "returned", s |-> sv, results |-> best, ret |-> a.fit]
    ELSE Continue(sv, IF best = Null THEN a.fit ELSE best)

AfterAttempt(best, sv, a, allowError) ==
    IF AttemptThrew(a) THEN Continue(sv, best)
    ELSE IF ~AttemptGavePoints(a) THEN Continue(sv, best)
    ELSE IF Lt(a.est.err, allowError)
    THEN [pc |-> "returned", s |-> sv, results |-> best, ret |-> a.fit]
    ELSE Continue(sv, a.fit)

(***************************************************************************)
(* The callers' inputs.                                                    *)
(***************************************************************************)
Interior == 2..64

\* Straight constant-speed paths; some leave the line at the thirds, some
\* throw at the half or at the thirds.
LineCurves ==
    {LineCurve(IPt(0, 0), IPt(4, 0), NoBump, {}),
     LineCurve(IPt(0, 0), IPt(6, 0), 3 :> IPt(0, 3), {}),
     LineCurve(IPt(0, 0), IPt(4, 4), (3 :> IPt(0, 3)) @@ (9 :> IPt(3, 0)), {}),
     LineCurve(IPt(0, 0), IPt(6, 0), 3 :> IPt(0, 3), {2}),
     LineCurve(IPt(0, 0), IPt(4, 0), NoBump, {3})}

\* Curves that are defined at their two ends only.
EndsOnlyCurves ==
    {[CubicBezierCurve(IPt(0, 0), IPt(3, 0), IPt(0, 3), IPt(3, 3)) EXCEPT !.bad = Interior],
     [QuadCurve(IPt(0, 0), IPt(1, 2), IPt(4, 0)) EXCEPT !.bad = Interior]}

QuadCurves ==
    {QuadCurve(IPt(0, 0), p1, p2) :
        p1 \in {IPt(1, 0), IPt(2, 0), IPt(1, 2), IPt(2, 2), IPt(0, 0)},
        p2 \in {IPt(4, 0), IPt(2, 2)}}
    \cup {QuadCurve(IPt(0, 0), Pt(Frac(1, 2000), Zero), Pt(Frac(1, 2000), Frac(1, 4000)))}

CubicCurves ==
    {CubicBezierCurve(IPt(0, 0), IPt(0, 3), IPt(3, 3), IPt(3, 0)),
     CubicBezierCurve(IPt(0, 0), IPt(3, 0), IPt(0, 3), IPt(3, 3)),
     CubicBezierCurve(IPt(0, 0), IPt(1, 2), IPt(3, 2), IPt(4, 0)),
     CubicBezierCurve(IPt(0, 0), IPt(1, 0), IPt(2, 0), IPt(3, 0))}

AutoCurves == LineCurves \cup EndsOnlyCurves
Curves == AutoCurves \cup QuadCurves \cup CubicCurves

Tolerances == {Zero, Frac(5, 2), R(4), R(7)}
SampleCounts == {0, 1, 3}

NoCurve == LineCurve(IPt(0, 0), IPt(0, 0), NoBump, {})
NoCall == [c |-> NoCurve, allowError |-> Zero, maxSegments |-> 0, samples |-> 0]
NoQuadify == [c |-> NoCurve, n |-> 0, out |-> Null, hit |-> FALSE]
NoArg == <<>>
NoRes == <<>>

(***************************************************************************)
(* The library: the cache and one call at a time.                          *)
(***************************************************************************)
Init ==
    /\ invMatrixCache = EmptyCache
    /\ pc = "idle"
    /\ call = NoCall
    /\ s = 0
    /\ results = Null
    /\ ret = Null
    /\ log = <<>>
    /\ lastQ = NoQuadify
    /\ arg = NoArg
    /\ res = NoRes

\* A caller calls quadifyCurve(c, n).
QuadifyCall ==
    /\ pc = "idle"
    /\ \E c \in Curves, n \in -1..MaxSegments :
          \E q \in {quadifyCurve(c, n, invMatrixCache)} :
             /\ lastQ' = [c |-> c, n |-> n, out |-> q.out,
                          hit |-> n \in DOMAIN invMatrixCache]
             /\ invMatrixCache' = q.cache
    /\ pc' = "quadified"
    /\ UNCHANGED <<call, s, results, ret, log, arg, res>>

\* A caller calls autoQuadifyCurve(c, allowError, maxSegments, samples):
\* "let results = null" and "let s = 1".
AutoCall ==
    /\ pc = "idle"
    /\ \E c \in AutoCurves, e \in Tolerances,
          m \in -1..MaxSegments, n \in SampleCounts :
          call' = [c |-> c, allowError |-> e, maxSegments |-> m, samples |-> n]
    /\ s' = 1
    /\ results' = Null
    /\ ret' = Null
    /\ log' = <<>>
    /\ pc' = "loop"
    /\ UNCHANGED <<invMatrixCache, lastQ, arg, res>>

\* One iteration of the loop: s <= maxSegments, the try block, s++.
AutoAttempt ==
    /\ pc = "loop"
    /\ s <= call.maxSegments
    /\ \E a \in {TryBody(call.c, s, call.samples, invMatrixCache)} :
       \E next \in {AfterAttempt(results, s, a, call.allowError)} :
          /\ invMatrixCache' = a.cache
          /\ log' = Append(log, [s |-> a.s, fit |-> a.fit, est |-> a.est])
          /\ pc' = next.pc
          /\ s' = next.s
          /\ results' = next.results
          /\ ret' = next.ret
    /\ UNCHANGED <<call, lastQ, arg, res>>

\* The loop ends: "return results".
AutoExit ==
    /\ pc = "loop"
    /\ ~(s <= call.maxSegments)
    /\ ret' = results
    /\ pc' = "returned"
    /\ UNCHANGED <<invMatrixCache, call, s, results, log, lastQ, arg, res>>

\* The caller takes the result; the cache stays.
Release ==
    /\ pc \in {"quadified", "returned", "raised"}
    /\ pc' = "idle"
    /\ call' = NoCall
    /\ s' = 0
    /\ results' = Null
    /\ ret' = Null
    /\ log' = <<>>
    /\ lastQ' = NoQuadify
    /\ UNCHANGED <<invMatrixCache, arg, res>>

Next == QuadifyCall \/ AutoCall \/ AutoAttempt \/ AutoExit \/ Release

Spec == Init /\ [][Next]_vars

(***************************************************************************)
(* quadSolve on its own: coefficients are drawn, then solved.              *)
(***************************************************************************)
NoLibraryCall ==
    /\ invMatrixCache = EmptyCache
    /\ call = NoCall
    /\ s = 0
    /\ results = Null
    /\ ret = Null
    /\ log = <<>>
    /\ lastQ = NoQuadify

Coefficients == {R(k) : k \in -CoefMax..CoefMax}

InitQuadSolve ==
    /\ NoLibraryCall
    /\ pc = "input"
    /\ arg \in Coefficients \X Coefficients \X Coefficients
    /\ res = NoRes

QuadSolveCall ==
    /\ pc = "input"
    /\ res' = quadSolve(arg[1], arg[2], arg[3])
    /\ pc' = "solved"
    /\ UNCHANGED <<invMatrixCache, call, s, results, ret, log, lastQ, arg>>

SpecQuadSolve == InitQuadSolve /\ [][QuadSolveCall]_vars

(***************************************************************************)
(* findIntersection on its own: two rays are drawn, then intersected.      *)
(***************************************************************************)
Directions ==
    {IPt(1, 0), IPt(0, 1), IPt(1, 1), IPt(-1, 1), IPt(-1, -2), IPt(0, 0),
     Pt(Frac(1, 1000), Zero), Pt(Zero, Frac(1, 1000)), Pt(Frac(1, 2000), Zero)}

EndPoints == {IPt(4, 0), IPt(2, 2), IPt(0, 3)}

InitIntersect ==
    /\ NoLibraryCall
    /\ pc = "input"
    /\ arg \in {<<IPt(0, 0), d1, d2, p2>> : d1 \in Directions, d2 \in Directions,
                                           p2 \in EndPoints}
    /\ res = NoRes

IntersectCall ==
    /\ pc = "input"
    /\ res' = findIntersection(arg[1], arg[2], arg[3], arg[4])
    /\ pc' = "intersected"
    /\ UNCHANGED <<invMatrixCache, call, s, results, ret, log, lastQ, arg>>

SpecIntersect == InitIntersect /\ [][IntersectCall]_vars

(***************************************************************************)
(* The properties checked.                                                 *)
(***************************************************************************)
Attempts == 1..Len(log)

\* The attempt had a non-null, non-empty fit and an error below allowError.
Below(a) == AttemptSucceeded(a) /\ Lt(a.est.err, call.allowError)

Cap == IF call.maxSegments > 0 THEN call.maxSegments ELSE 0

\* C1: autoQuadifyCurve tries s = 1, 2, ... in increasing order and returns
\* at the first s whose fit succeeded with an error below allowError: an
\* attempt that satisfies the threshold is the last attempt made, the call
\* has returned its fit of s points, and hence no smaller s satisfied the
\* threshold and no greater s was attempted.
C1_FirstSatisfyingCountWins ==
    /\ \A i \in Attempts : log[i].s = i
    /\ pc = "loop" => s = Len(log) + 1
    /\ \A i \in Attempts :
          Below(log[i]) =>
             /\ i = Len(log)
             /\ pc = "returned"
             /\ ret = log[i].fit
             /\ Len(ret.pts) = i

C1_Witness ==
    /\ pc = "returned"
    /\ Len(log) = 2
    /\ call.maxSegments = 3
    /\ AttemptSucceeded(log[1])
    /\ Below(log[2])

\* An attempt was just made and it failed: the fit was null or empty, or
\* something threw in the fit or in the error estimate.
FailedAttemptMade ==
    /\ Len(log') = Len(log) + 1
    /\ \/ AttemptThrew(log'[Len(log')])
       \/ ~AttemptGavePoints(log'[Len(log')])

\* A step of the running call: the search goes on with s + 1, within the
\* cap, or the call returns.
LoopStep ==
    pc = "loop" =>
       \/ pc' = "loop" /\ s' = s + 1 /\ s' <= Cap + 1
       \/ pc' = "returned"

\* C2: autoQuadifyCurve never raises; a failed or throwing attempt at s
\* leaves the remembered result unchanged and the search goes on with s + 1;
\* every step of the call moves to s + 1 or returns, so that the call ends,
\* and what it returns is a point sequence or null.
C2_NeverRaises ==
    /\ [](pc # "raised")
    /\ [][FailedAttemptMade => (results' = results /\ s' = s + 1 /\ pc' = "loop")]_vars
    /\ [][LoopStep]_vars
    /\ [](pc = "returned" => ret.kind \in {"points", "null"})

C2_Witness ==
    /\ pc = "returned"
    /\ \E i \in Attempts : log[i].fit.kind = "null"
    /\ \E i \in Attempts : log[i].est.kind = "throw"
    /\ \E i \in Attempts : log[i].fit.kind = "throw"

\* The call returned at the cap: no attempt satisfied the threshold.
ReturnedAtCap == pc = "returned" /\ \A i \in Attempts : ~Below(log[i])

LastSucceeded ==
    CHOOSE i \in Attempts :
        AttemptSucceeded(log[i]) /\ \A j \in Attempts : AttemptSucceeded(log[j]) => j <= i

\* C3 (as amended): at the cap autoQuadifyCurve returns the fit of the last
\* s whose fit gave points and whose error estimate completed, and null
\* exactly when no s had both; the returned sequence never has more than
\* maxSegments points.
C3_BestEffortAtCap ==
    /\ ReturnedAtCap =>
          /\ Len(log) = Cap
          /\ ret = Null <=> \A i \in Attempts : ~AttemptSucceeded(log[i])
          /\ ret # Null => ret = log[LastSucceeded].fit
    /\ pc = "returned" => Len(ret.pts) <= Cap

C3_Witness ==
    /\ ReturnedAtCap
    /\ ret = Null
    /\ \E i \in Attempts : AttemptGavePoints(log[i])

\* C3 as stated: null exactly when no s produced any points.
C3_NullOnlyWithoutPoints ==
    ReturnedAtCap => (ret = Null <=> \A i \in Attempts : ~AttemptGavePoints(log[i]))

\* C4: quadifyCurve(c, n) returns null or a sequence of n points: exactly n
\* points for n >= 2, one point or null for n = 1, the empty sequence for
\* n <= 0; the call ends otherwise only when the curve itself throws.
C4_LengthIsSegmentCount ==
    pc = "quadified" =>
       /\ lastQ.out.kind \in {"points", "null", "throw"}
       /\ lastQ.out.kind = "throw" => \E t \in FitParams(lastQ.n) : Throws(lastQ.c, t)
       /\ lastQ.out.kind # "throw" =>
             /\ lastQ.n >= 2 => lastQ.out.kind = "points" /\ Len(lastQ.out.pts) = lastQ.n
             /\ lastQ.n = 1 =>
                   \/ lastQ.out = Null
                   \/ lastQ.out.kind = "points" /\ Len(lastQ.out.pts) = 1
             /\ lastQ.n <= 0 => lastQ.out = Points(<<>>)

C4_Witness ==
    /\ pc = "quadified"
    /\ lastQ.n = MaxSegments
    /\ lastQ.out.kind = "points"
    /\ Len(lastQ.out.pts) = MaxSegments

\* quadifyCurve(c, 1) was called with a quadratic Bezier.
QuadraticFitted == pc = "quadified" /\ lastQ.c.kind = "quad" /\ lastQ.n = 1

TangentDet == Det(derivative(lastQ.c, Zero), derivative(lastQ.c, One))

MidPoint(a, b) == Pt(Div(Add(a.x, b.x), R(2)), Div(Add(a.y, b.y), R(2)))

\* C5 (as amended): quadifyCurve(c, 1) on a quadratic Bezier P0, P1, P2
\* returns [P1] when the end tangents are not parallel (|det| >= 1e-6); when
\* they are exactly parallel (det = 0) it returns the middle of P0 and P2,
\* and for 0 < |det| < 1e-6 it returns null.
C5_QuadraticRoundTrip ==
    QuadraticFitted =>
       IF ~AbsBelowInv(TangentDet, ParallelEps)
       THEN lastQ.out = Points(<<lastQ.c.p[2]>>)
       ELSE IF TangentDet = Zero
       THEN lastQ.out = Points(<<MidPoint(lastQ.c.p[1], lastQ.c.p[3])>>)
       ELSE lastQ.out = Null

C5_Witness ==
    /\ QuadraticFitted
    /\ TangentDet = Zero
    /\ lastQ.out.kind = "points"
    /\ lastQ.out.pts[1] # lastQ.c.p[2]

\* C5 as stated: every quadratic Bezier fitted with n = 1 returns [P1].
C5_AlwaysControlPoint == QuadraticFitted => lastQ.out = Points(<<lastQ.c.p[2]>>)

\* The discriminant b * b - 4 * a * c of the integer coefficients solved.
Discriminant == arg[2][1] * arg[2][1] - 4 * arg[1][1] * arg[3][1]

\* r = P + S * sqrt(D) solves a * x^2 + b * x + c = 0.
IsRoot(r) ==
    /\ Add(Add(Mul(arg[1], Add(Mul(r[1], r[1]), Mul(Mul(r[2], r[2]), r[3]))),
               Mul(arg[2], r[1])), arg[3]) = Zero
    /\ \/ r[3] = Zero
       \/ Add(Mul(Mul(R(2), arg[1]), Mul(r[1], r[2])), Mul(arg[2], r[2])) = Zero

\* C6 (as amended): for a # 0 quadSolve returns no root when D < 0, one root
\* when D = 0 and two roots when D > 0, the first below the second when
\* a > 0 and above it when a < 0; for a = 0 it returns the root -c / b, or
\* nothing when b = 0; what it returns are roots.
C6_DiscriminantCases ==
    pc = "solved" =>
       /\ \A i \in 1..Len(res) : IsRoot(res[i])
       /\ arg[1] # Zero /\ Discriminant < 0 => res = <<>>
       /\ arg[1] # Zero /\ Discriminant = 0 => Len(res) = 1
       /\ arg[1] # Zero /\ Discriminant > 0 =>
             /\ Len(res) = 2
             /\ arg[1][1] > 0 => SurdLt(res[1], res[2])
             /\ arg[1][1] < 0 => SurdLt(res[2], res[1])
       /\ arg[1] = Zero /\ arg[2] # Zero => res = <<Rational(Div(Neg(arg[3]), arg[2]))>>
       /\ arg[1] = Zero /\ arg[2] = Zero => res = <<>>

C6_Witness ==
    /\ pc = "solved"
    /\ arg = <<R(-1), R(1), R(1)>>
    /\ Len(res) = 2
    /\ SurdLt(res[2], res[1])

\* C6 as stated: two roots are in ascending order.
C6_RootsAscending ==
    (pc = "solved" /\ arg[1] # Zero /\ Discriminant > 0) =>
       (Len(res) = 2 /\ SurdLe(res[1], res[2]))

\* The ray parameters: the solution of p1 + u * d1 = p2 + v * d2 by
\* Cramer's rule, over the determinant of (d1, -d2).
RayDet == Sub(Mul(arg[3].x, arg[2].y), Mul(arg[2].x, arg[3].y))
RayU ==
    Div(Sub(Mul(Sub(arg[4].y, arg[1].y), arg[3].x),
            Mul(Sub(arg[4].x, arg[1].x), arg[3].y)), RayDet)
RayV ==
    Div(Sub(Mul(arg[2].x, Sub(arg[4].y, arg[1].y)),
            Mul(arg[2].y, Sub(arg[4].x, arg[1].x))), RayDet)

Along(p, d, k) == Pt(Add(p.x, Mul(d.x, k)), Add(p.y, Mul(d.y, k)))

NonParallel == pc = "intersected" /\ Ge(AbsR(RayDet), Frac(1, ParallelEps))

\* C7: when |det| >= 1e-6, findIntersection returns a point exactly when
\* u > 0 and v < 0, and null otherwise; the point is p1 + u * d1, which is
\* also p2 + v * d2.
C7_ForwardBackwardCrossing ==
    NonParallel =>
       /\ Along(arg[1], arg[2], RayU) = Along(arg[4], arg[3], RayV)
       /\ res # None <=> (Gt(RayU, Zero) /\ Lt(RayV, Zero))
       /\ res # None => res = Some(Along(arg[1], arg[2], RayU))

C7_Witness ==
    /\ NonParallel
    /\ AbsR(RayDet) = Frac(1, ParallelEps)
    /\ res # None
    /\ res = Some(Along(arg[4], arg[3], RayV))

\* C8 as stated: estimateError(c, offPoints, N) samples the curve at N
\* parameters and returns the sum of the per-sample minima divided by the
\* number of parameters sampled.
C8_MeanOverSamples ==
    \A i \in Attempts :
       (log[i].est.kind = "value" /\ log[i].est.N >= 1) =>
          /\ Len(log[i].est.minima) = log[i].est.N
          /\ log[i].est.err =
                Div(SumSeq(log[i].est.minima), R(Len(log[i].est.minima)))

MatMul(A, B) ==
    Force([i \in 1..Len(A) |->
        Force([j \in 1..Len(A) |-> SumSeq([k \in 1..Len(A) |-> Mul(A[i][k], B[k][j])])])])

\* A step keeps every entry of the cache; an entry it adds has a key n >= 2
\* and is the inverse of getMatrix(n).
CacheStep ==
    /\ \A n \in DOMAIN invMatrixCache :
          n \in DOMAIN invMatrixCache' /\ invMatrixCache'[n] = invMatrixCache[n]
    /\ \A n \in DOMAIN invMatrixCache' \ DOMAIN invMatrixCache :
          /\ n >= 2
          /\ MatMul(getMatrix(n), invMatrixCache'[n]) = Identity(2 * n)

\* C9: the cache is append-only and a function of n: no step removes or
\* replaces an entry; the entry added for n is the inverse of getMatrix(n),
\* whatever was fitted before; no entry has a key n <= 1; a quadifyCurve(c, n)
\* that finds its matrix in the cache returns what it returns on an empty
\* cache.
C9_CacheAppendOnly ==
    /\ [][CacheStep]_vars
    /\ [](pc = "quadified" /\ lastQ.hit =>
             lastQ.out = quadifyCurve(lastQ.c, lastQ.n, EmptyCache).out)

C9_Witness ==
    /\ pc = "quadified"
    /\ lastQ.hit
    /\ lastQ.n >= 2
    /\ lastQ.out.kind = "points"
    /\ Cardinality(DOMAIN invMatrixCache) >= 2

ManyFitted == pc = "quadified" /\ lastQ.n >= 2 /\ lastQ.out.kind = "points"

\* C10: for n >= 2 the first off-point of quadifyCurve(c, n) is
\* eval(0) + derivative(0) / (2n) and the last is eval(1) - derivative(1) / (2n).
C10_BoundaryRows ==
    ManyFitted =>
       /\ lastQ.out.pts[1] =
             Along(eval(lastQ.c, Zero), derivative(lastQ.c, Zero), Frac(1, 2 * lastQ.n))
       /\ lastQ.out.pts[lastQ.n] =
             Along(eval(lastQ.c, One), derivative(lastQ.c, One), Frac(-1, 2 * lastQ.n))

C10_Witness ==
    /\ ManyFitted
    /\ lastQ.n = MaxSegments
    /\ lastQ.c.kind = "cubic"
    /\ lastQ.out.pts[1] # lastQ.out.pts[lastQ.n]

====
